---- MODULE Spec2Model ----
(***************************************************************************)
(* Credit System API (app/logic.py, app/main.py, app/models.py).           *)
(*                                                                         *)
(* Python floats are modelled as exact rationals <<n, d>> in lowest terms  *)
(* with d > 0; a NULL numeric column is the empty tuple <<>>.  Strings     *)
(* that the code inspects character by character (asset_type) are tuples   *)
(* of one-character strings; a NULL text column is the string "NULL".      *)
(* The pass-through columns name, gender, age, job_type, credit_history    *)
(* and financing_type take no part in any computation and are left out.    *)
(***************************************************************************)
EXTENDS Integers, Sequences, FiniteSets, TLC

VARIABLES
    db,        \* customers table: id -> row
    pending,   \* requests between their reads and their commit
    resp,      \* the response of the request that ended last
    row,       \* SpecRow: the row_like handed to process_customer_row
    out,       \* SpecRow: what process_customer_row returned
    rec,       \* SpecDisplay: one customers row as the schema admits it
    shown,     \* SpecDisplay: the decision the read displayed
    clients,   \* Spec: the payloads and CSV files the clients of a run send,
               \* and process_customer_row of each payload
    scorer,    \* SpecLoader: the _H2O_BIN* globals and the artifacts directory
    threads    \* SpecLoader: the request each worker thread runs and where
               \* it stands in it

vars == <<db, pending, resp, row, out, rec, shown, clients, scorer, threads>>

----------------------------------------------------------------------------
(* Rational arithmetic standing for Python float arithmetic.               *)

Abs(i) == IF i < 0 THEN -i ELSE i

RECURSIVE GCD(_, _)
GCD(a, b) == IF b = 0 THEN a ELSE GCD(b, a % b)

Rat(n, d) ==
    LET s == IF d < 0 THEN -1 ELSE 1
        g == GCD(Abs(n), Abs(d))
    IN  <<(s * n) \div g, (s * d) \div g>>

\* a number literal, and float(x) of a value that already is a number
Num(i)   == <<i, 1>>
float(x) == Rat(x[1], x[2])

RAdd(x, y) ==
    LET g == GCD(x[2], y[2])
    IN  Rat(x[1] * (y[2] \div g) + y[1] * (x[2] \div g), (x[2] \div g) * y[2])
RNeg(x)    == <<-x[1], x[2]>>
RSub(x, y) == RAdd(x, RNeg(y))
\* cross-reduced first, so that the products stay small
RMul(x, y) ==
    LET g1 == GCD(Abs(x[1]), y[2])
        g2 == GCD(Abs(y[1]), x[2])
    IN  Rat((x[1] \div g1) * (y[1] \div g2), (x[2] \div g2) * (y[2] \div g1))
RInv(y)    == IF y[1] < 0 THEN <<-y[2], -y[1]>> ELSE <<y[2], y[1]>>
RDiv(x, y) == RMul(x, RInv(y))
RLe(x, y)  == x[1] * y[2] <= y[1] * x[2]
RLt(x, y)  == x[1] * y[2] < y[1] * x[2]

\* floor(n * 10^k / d) and the remainder, by long division
RECURSIVE Shift(_, _, _)
Shift(qr, d, k) ==
    IF k = 0 THEN qr
    ELSE Shift(<<qr[1] * 10 + (qr[2] * 10) \div d, (qr[2] * 10) % d>>, d, k - 1)

\* f"{x:.kf}": x rounded to k decimals (half to even), as the scaled integer
FormatFixed(x, k) ==
    LET qr == Shift(<<x[1] \div x[2], x[1] % x[2]>>, x[2], k)
        q  == qr[1]
        r2 == 2 * qr[2]
    IN  IF r2 > x[2] \/ (r2 = x[2] /\ q % 2 = 1) THEN q + 1 ELSE q

----------------------------------------------------------------------------
(* Strings as tuples of characters: str.strip() and str.title().           *)

LowerLetters ==
    <<"a","b","c","d","e","f","g","h","i","j","k","l","m",
      "n","o","p","q","r","s","t","u","v","w","x","y","z">>
UpperLetters ==
    <<"A","B","C","D","E","F","G","H","I","J","K","L","M",
      "N","O","P","Q","R","S","T","U","V","W","X","Y","Z">>

IsLower(c) == \E i \in 1..26 : LowerLetters[i] = c
IsUpper(c) == \E i \in 1..26 : UpperLetters[i] = c
IsCased(c) == IsLower(c) \/ IsUpper(c)
IsSpace(c) == c \in {" ", "\t", "\n"}
ToUpper(c) == IF IsLower(c) THEN UpperLetters[CHOOSE i \in 1..26 : LowerLetters[i] = c] ELSE c
ToLower(c) == IF IsUpper(c) THEN LowerLetters[CHOOSE i \in 1..26 : UpperLetters[i] = c] ELSE c

RECURSIVE LStrip(_)
LStrip(s) == IF s # <<>> /\ IsSpace(Head(s)) THEN LStrip(Tail(s)) ELSE s
RECURSIVE RStrip(_)
RStrip(s) ==
    IF s # <<>> /\ IsSpace(s[Len(s)]) THEN RStrip(SubSeq(s, 1, Len(s) - 1)) ELSE s
Strip(s) == RStrip(LStrip(s))

Title(s) ==
    [i \in 1..Len(s) |->
        IF i > 1 /\ IsCased(s[i - 1]) THEN ToLower(s[i]) ELSE ToUpper(s[i])]

NoneStr == <<"None">>   \* Python None where a string is expected

----------------------------------------------------------------------------
(* app/logic.py                                                            *)

Car       == <<"C", "a", "r">>
House     == <<"H", "o", "u", "s", "e">>
Equipment == <<"E", "q", "u", "i", "p", "m", "e", "n", "t">>

KnownAssetTypes == {Car, House, Equipment}

installment_options(t) ==
    IF t = Car THEN <<36, 48, 60, 72, 84>>
    ELSE IF t = House THEN <<120, 180, 240, 300>>
    ELSE <<12, 24, 36, 48, 60>>

\* installment_options.get(asset_type, default)
options_get(t, default) ==
    IF t \in KnownAssetTypes THEN installment_options(t) ELSE default

_normalize_asset_type(value) ==
    IF value = NoneStr THEN Car ELSE Title(Strip(value))

\* A requested period: None, an int, or a string (text).
ReqNone      == [kind |-> "none", val |-> 0, text |-> <<>>]
ReqInt(n)    == [kind |-> "int", val |-> n, text |-> <<>>]
ReqStr(s)    == [kind |-> "str", val |-> 0, text |-> s]

Digits == <<"0", "1", "2", "3", "4", "5", "6", "7", "8", "9">>
IsDigit(c) == \E i \in 1..10 : Digits[i] = c
DigitVal(c) == (CHOOSE i \in 1..10 : Digits[i] = c) - 1

RECURSIVE DigitsToInt(_)
DigitsToInt(s) ==
    IF s = <<>> THEN 0
    ELSE 10 * DigitsToInt(SubSeq(s, 1, Len(s) - 1)) + DigitVal(s[Len(s)])

\* truthiness of the requested value: None, 0 and "" are falsy
Truthy(r) ==
    CASE r.kind = "none" -> FALSE
      [] r.kind = "int"  -> r.val # 0
      [] OTHER           -> r.text # <<>>

\* int(value), None when it raises; the result as ReqNone or ReqInt
_to_int_or_none(r) ==
    CASE r.kind = "none" -> ReqNone
      [] r.kind = "int"  -> r
      [] OTHER ->
           LET s    == Strip(r.text)
               neg  == s # <<>> /\ Head(s) = "-"
               body == IF s # <<>> /\ Head(s) \in {"-", "+"} THEN Tail(s) ELSE s
           IN  IF body # <<>> /\ \A i \in 1..Len(body) : IsDigit(body[i])
               THEN ReqInt(IF neg THEN -DigitsToInt(body) ELSE DigitsToInt(body))
               ELSE ReqNone

InSeq(x, s) == \E i \in 1..Len(s) : s[i] = x

\* mutant: the last minimal element
MinByDistance_LastOnTie(allowed, requested) ==
    LET best == CHOOSE i \in 1..Len(allowed) :
                  /\ \A j \in 1..Len(allowed) :
                        Abs(allowed[i] - requested) <= Abs(allowed[j] - requested)
                  /\ \A j \in (i + 1)..Len(allowed) :
                        Abs(allowed[j] - requested) > Abs(allowed[i] - requested)
    IN  allowed[best]

\* min(allowed, key=lambda x: abs(x - requested)): the first minimal element
MinByDistance(allowed, requested) ==
    LET best == CHOOSE i \in 1..Len(allowed) :
                  /\ \A j \in 1..Len(allowed) :
                        Abs(allowed[i] - requested) <= Abs(allowed[j] - requested)
                  /\ \A j \in 1..(i - 1) :
                        Abs(allowed[j] - requested) > Abs(allowed[i] - requested)
    IN  allowed[best]

\* mutant: the last allowed period where the code takes the first
_pick_installment_period_LastDefault(asset_type, requested_months) ==
    LET allowed   == options_get(asset_type, <<36>>)
        requested == _to_int_or_none(requested_months)
    IN  IF ~Truthy(requested_months) THEN allowed[Len(allowed)]
        ELSE IF ~Truthy(requested) THEN allowed[Len(allowed)]
        ELSE IF ~InSeq(requested.val, allowed)
             THEN MinByDistance(allowed, requested.val)
        ELSE requested.val

_pick_installment_period(asset_type, requested_months) ==
    LET allowed   == options_get(asset_type, <<36>>)
        requested == _to_int_or_none(requested_months)
    IN  IF ~Truthy(requested_months) THEN allowed[1]
        ELSE IF ~Truthy(requested) THEN allowed[1]
        ELSE IF ~InSeq(requested.val, allowed)
             THEN MinByDistance(allowed, requested.val)
        ELSE requested.val

profit_rate == <<1, 10>>
AcceptMax   == <<45, 100>>
ReviewMax   == <<60, 100>>
HalfIncome  == <<1, 2>>
IncomeRef   == <<58, 100>>

Suggest(text, n) == [text |-> text, months |-> n]

SeqMax(s) == CHOOSE m \in {s[i] : i \in 1..Len(s)} : \A i \in 1..Len(s) : s[i] <= m

IfThen(cond, s) == IF cond THEN <<s>> ELSE <<>>

\* mutant: the longest allowed term offered, as the Rejected branch does
ReviewSuggestions_LongestTerm(income, expenses, existing_loans, asset_type_norm, months) ==
    LET allowed      == options_get(asset_type_norm, <<months>>)
        longer_terms == SelectSeq(allowed, LAMBDA m : m > months)
    IN  <<Suggest("Consider increasing your down payment to reduce the monthly installment.", 0)>>
        \o IfThen(RLt(Num(0), existing_loans),
                  Suggest("Pay off some existing loans to lower your total obligations.", 0))
        \o IfThen(RLt(RMul(HalfIncome, income), expenses),
                  Suggest("Try to reduce your monthly expenses.", 0))
        \o IF longer_terms # <<>>
           THEN <<Suggest("Consider extending the installment period to {} months.",
                          longer_terms[Len(longer_terms)])>>
           ELSE <<>>

\* the Review branch's suggestions, logic.py lines 76-85
ReviewSuggestions(income, expenses, existing_loans, asset_type_norm, months) ==
    LET allowed      == options_get(asset_type_norm, <<months>>)
        longer_terms == SelectSeq(allowed, LAMBDA m : m > months)
    IN  <<Suggest("Consider increasing your down payment to reduce the monthly installment.", 0)>>
        \o IfThen(RLt(Num(0), existing_loans),
                  Suggest("Pay off some existing loans to lower your total obligations.", 0))
        \o IfThen(RLt(RMul(HalfIncome, income), expenses),
                  Suggest("Try to reduce your monthly expenses.", 0))
        \o IF longer_terms # <<>>
           THEN <<Suggest("Consider extending the installment period to {} months.", longer_terms[1])>>
           ELSE <<>>

\* mutant: the income suggestion placed after the down payment suggestion
RejectedSuggestions_IncomeLast(income, existing_loans, monthly_installment, asset_type_norm, months) ==
    LET longest == SeqMax(options_get(asset_type_norm, <<months>>))
    IN  IfThen(RLt(Num(0), existing_loans),
               Suggest("Pay off existing loans to reduce your DSR.", 0))
        \o <<Suggest("Increase your down payment to reduce the financed amount.", 0)>>
        \o IfThen(RLt(income, RDiv(RAdd(existing_loans, monthly_installment), IncomeRef)),
                  Suggest("Increase your net monthly income.", 0))
        \o IfThen(longest > months,
                  Suggest("Consider extending the installment period to {} months.", longest))

\* the Rejected branch's suggestions, logic.py lines 92-100
RejectedSuggestions(income, existing_loans, monthly_installment, asset_type_norm, months) ==
    LET longest == SeqMax(options_get(asset_type_norm, <<months>>))
    IN  IfThen(RLt(Num(0), existing_loans),
               Suggest("Pay off existing loans to reduce your DSR.", 0))
        \o IfThen(RLt(income, RDiv(RAdd(existing_loans, monthly_installment), IncomeRef)),
                  Suggest("Increase your net monthly income.", 0))
        \o <<Suggest("Increase your down payment to reduce the financed amount.", 0)>>
        \o IfThen(longest > months,
                  Suggest("Consider extending the installment period to {} months.", longest))

\* mutant: the auto-approval boundary taken as exclusive
RuleDecision_ExclusiveAccept(dsr) ==
    IF RLt(dsr, AcceptMax) THEN "Accepted"
    ELSE IF RLe(dsr, ReviewMax) THEN "Review"
    ELSE "Rejected"

\* the three-way branch on dsr, logic.py lines 61, 70, 86
RuleDecision(dsr) ==
    IF RLe(dsr, AcceptMax) THEN "Accepted"
    ELSE IF RLe(dsr, ReviewMax) THEN "Review"
    ELSE "Rejected"

\* mutant: only the division by zero is guarded
ComputeDsr_GuardZeroOnly(existing_loans, monthly_installment, income) ==
    IF income[1] # 0
    THEN RDiv(RAdd(existing_loans, monthly_installment), income)
    ELSE Num(1)

\* dsr, logic.py line 56
ComputeDsr(existing_loans, monthly_installment, income) ==
    IF RLt(Num(0), income)
    THEN RDiv(RAdd(existing_loans, monthly_installment), income)
    ELSE Num(1)

\* mutant: the profit rate applied per month instead of per year
TotalCost_PerMonth(loan_amount, months) ==
    RMul(loan_amount, RAdd(Num(1), RMul(profit_rate, Num(months))))

\* total_cost, logic.py line 54
TotalCost(loan_amount, months) ==
    RMul(loan_amount, RAdd(Num(1), RMul(profit_rate, Rat(months, 12))))

\* mutant: the subtraction with its operands swapped
LoanAmount_Swapped(asset_value, down_payment) == RSub(down_payment, asset_value)

\* loan_amount, logic.py line 53
LoanAmount(asset_value, down_payment) == RSub(asset_value, down_payment)

process_customer_row(r) ==
    LET income          == float(r.income)
        expenses        == float(r.expenses)
        existing_loans  == float(r.existing_loans)
        asset_value     == float(r.asset_value)
        down_payment    == float(r.down_payment)
        asset_type_norm == _normalize_asset_type(r.asset_type)
        months          == _pick_installment_period(asset_type_norm, r.installment_period)
        loan_amount     == LoanAmount(asset_value, down_payment)
        total_cost      == TotalCost(loan_amount, months)
        monthly_installment == RDiv(total_cost, Num(months))
        dsr             == ComputeDsr(existing_loans, monthly_installment, income)
        decision        == RuleDecision(dsr)
        explanation ==
            CASE decision = "Accepted" ->
                   IF RLt(Num(0), existing_loans)
                   THEN <<"accepted, existing loans within acceptable limits",
                          FormatFixed(existing_loans, 2)>>
                   ELSE <<"accepted, DSR is low and net income is sufficient">>
              [] decision = "Review" ->
                   <<"needs manual review", FormatFixed(dsr, 4),
                     FormatFixed(RMul(dsr, Num(100)), 2)>>
              [] OTHER ->
                   <<"rejected, DSR too high", FormatFixed(dsr, 4),
                     FormatFixed(RMul(dsr, Num(100)), 2),
                     FormatFixed(RAdd(existing_loans, monthly_installment), 2),
                     FormatFixed(income, 2)>>
        suggestions ==
            CASE decision = "Accepted" -> <<>>
              [] decision = "Review" ->
                   ReviewSuggestions(income, expenses, existing_loans, asset_type_norm, months)
              [] OTHER ->
                   RejectedSuggestions(income, existing_loans, monthly_installment,
                                       asset_type_norm, months)
    IN  [customer_id         |-> r.customer_id,
         income              |-> income,
         expenses            |-> expenses,
         existing_loans      |-> existing_loans,
         asset_type          |-> asset_type_norm,
         asset_value         |-> asset_value,
         down_payment        |-> down_payment,
         installment_period  |-> months,
         monthly_installment |-> monthly_installment,
         total_cost          |-> total_cost,
         dsr                 |-> dsr,
         decision            |-> decision,
         explanation         |-> explanation,
         suggestions         |-> suggestions]

----------------------------------------------------------------------------
(* SpecRow: process_customer_row applied to one row_like.                  *)

RowAssetTypes ==
    { <<"c", "a", "r">>,
      <<" ", "H", "o", "u", "s", "e", " ">>,
      <<"E", "Q", "U", "I", "P", "M", "E", "N", "T">>,
      <<"b", "o", "a", "t">>,
      NoneStr }

RowPeriods ==
    { ReqNone, ReqInt(0), ReqInt(-12), ReqInt(42), ReqInt(50), ReqInt(60), ReqInt(300),
      ReqStr(<<"a", "b", "c">>), ReqStr(<<"4", "8">>) }

Nums(S) == {Num(i) : i \in S}

RowGrid ==
    [customer_id        : {"C1"},
     income             : Nums({-1000, 0, 2000, 5000}),
     expenses           : Nums({1000, 3000}),
     existing_loans     : Nums({0, 500, 1250, 2000}),
     asset_type         : RowAssetTypes,
     asset_value        : Nums({50000}),
     down_payment       : Nums({10000, 18000, 60000}),
     installment_period : RowPeriods]

\* dsr = (150000 + 0.025) / 250000 = 0.6000001
RowJustAboveReview ==
    [customer_id |-> "C1", income |-> Num(250000), expenses |-> Num(1000),
     existing_loans |-> Num(150000), asset_type |-> <<"c", "a", "r">>,
     asset_value |-> Num(50000), down_payment |-> Num(49999),
     installment_period |-> ReqInt(60)]

RowInputs == RowGrid \cup {RowJustAboveReview}

NoOut   == [decision |-> "NULL"]
NoRow   == [customer_id |-> "NULL"]
NoResp  == [op |-> "none", code |-> 0]
NoRec   == [customer_id |-> "NULL"]
NoShown == [view |-> "none", listed |-> FALSE, decision |-> "NULL"]
NoClients == [payloads |-> {}, files |-> {}, processed |-> <<>>]
NoScorer  == [started |-> FALSE]
NoThreads == <<>>

InitRow ==
    /\ row \in RowInputs
    /\ out = NoOut
    /\ db = <<>> /\ pending = {} /\ resp = NoResp
    /\ rec = NoRec /\ shown = NoShown /\ clients = NoClients
    /\ scorer = NoScorer /\ threads = NoThreads

ProcessRow ==
    /\ out = NoOut
    /\ out' = process_customer_row(row)
    /\ UNCHANGED <<row, db, pending, resp, rec, shown, clients, scorer, threads>>

NextRow == ProcessRow

SpecRow == InitRow /\ [][NextRow]_vars

RowDone == out # NoOut

----------------------------------------------------------------------------
(* Claims about process_customer_row, checked under SpecRow.               *)

\* C4: the decision returned by process_customer_row is Accepted exactly
\* when the computed dsr <= 0.45, Review exactly when 0.45 < dsr <= 0.60 and
\* Rejected exactly when dsr > 0.60; dsr = 0.45 gives Accepted, dsr = 0.60
\* gives Review and dsr = 0.6000001 gives Rejected.
C4_DecisionTiers ==
    RowDone =>
        LET n == out.dsr[1]
            d == out.dsr[2]
        IN  /\ (out.decision = "Accepted") <=> (100 * n <= 45 * d)
            /\ (out.decision = "Review")   <=> (45 * d < 100 * n /\ 100 * n <= 60 * d)
            /\ (out.decision = "Rejected") <=> (100 * n > 60 * d)
            /\ (out.dsr = <<9, 20>> => out.decision = "Accepted")
            /\ (out.dsr = <<3, 5>> => out.decision = "Review")
            /\ (out.dsr = <<6000001, 10000000>> => out.decision = "Rejected")

\* C4 witness: a row whose dsr is exactly 0.45 was processed and accepted
C4_Witness ==
    RowDone /\ out.dsr = <<9, 20>> /\ out.decision = "Accepted"

\* C5: for every input with income <= 0, process_customer_row returns
\* dsr = 1.0 exactly and decision Rejected, whatever the other fields are.
C5_NonPositiveIncome ==
    (RowDone /\ row.income[1] <= 0) =>
        (out.dsr = <<1, 1>> /\ out.decision = "Rejected")

\* C5 witness: a negative income with a negative loan amount and no existing loans
C5_Witness ==
    /\ RowDone /\ row.income[1] < 0 /\ row.existing_loans = Num(0)
    /\ row.down_payment[1] > row.asset_value[1]
    /\ out.decision = "Rejected"

\* C10: for income > 0, loan_amount = asset_value - down_payment,
\* total_cost = loan_amount * (1 + 0.10 * months / 12), monthly_installment =
\* total_cost / months and dsr = (existing_loans + monthly_installment) / income,
\* months being the snapped period; the example row gives total_cost 60000,
\* monthly_installment 1000, dsr 0.2, Accepted and no suggestions.
C10_Formulas ==
    (RowDone /\ row.income[1] > 0) =>
        LET months == out.installment_period
            loan   == row.asset_value[1] - row.down_payment[1]
        IN  /\ out.total_cost = Rat(loan * (120 + months), 120)
            /\ out.monthly_installment = Rat(loan * (120 + months), 120 * months)
            /\ out.dsr = Rat(row.existing_loans[1] * 120 * months + loan * (120 + months),
                             120 * months * row.income[1])
            /\ ( ( /\ row.income = Num(5000) /\ row.existing_loans = Num(0)
                    /\ row.asset_value = Num(50000) /\ row.down_payment = Num(10000)
                    /\ row.asset_type = <<"c", "a", "r">>
                    /\ row.installment_period = ReqInt(60) )
                  => /\ out.total_cost = <<60000, 1>>
                     /\ out.monthly_installment = <<1000, 1>>
                     /\ out.dsr = <<1, 5>>
                     /\ out.decision = "Accepted"
                     /\ out.suggestions = <<>> )

\* C10 witness: the example row was processed
C10_Witness ==
    /\ RowDone /\ row.income = Num(5000) /\ row.existing_loans = Num(0)
    /\ row.down_payment = Num(10000) /\ row.asset_type = <<"c", "a", "r">>
    /\ row.installment_period = ReqInt(60)
    /\ out.total_cost = <<60000, 1>>

\* the down payments a processed row is compared with
RowDownPayments == Nums({10000, 18000, 60000})

\* the row with another down payment gives a strictly smaller dsr
SmallerDsrWith(d) ==
    RLt(process_customer_row([row EXCEPT !.down_payment = d]).dsr, out.dsr)

\* C11 as stated: of two inputs that differ in down_payment only, both with
\* a positive loan amount, the one with the larger down_payment has the
\* strictly smaller dsr.
C11_Monotonicity ==
    RowDone =>
        \A d \in RowDownPayments :
            (/\ row.asset_value[1] - row.down_payment[1] > 0
             /\ row.asset_value[1] - d[1] > 0
             /\ d[1] > row.down_payment[1]) => SmallerDsrWith(d)

\* C11 amended: the same for inputs whose income is positive; with
\* income <= 0 both inputs have dsr = 1.0.
C11_MonotonicityPositiveIncome ==
    (RowDone /\ row.income[1] > 0) =>
        \A d \in RowDownPayments :
            (/\ row.asset_value[1] - row.down_payment[1] > 0
             /\ row.asset_value[1] - d[1] > 0
             /\ d[1] > row.down_payment[1]) => SmallerDsrWith(d)

\* C11 witness: down payment 10000 processed, and 18000 gives a smaller dsr
C11_Witness ==
    /\ RowDone /\ row.income = Num(5000) /\ row.down_payment = Num(10000)
    /\ row.existing_loans = Num(2000) /\ out.decision # "Accepted"
    /\ SmallerDsrWith(Num(18000))

\* C13: the asset_type that process_customer_row returns is one of Car,
\* House, Equipment; an input asset type that is absent, or that is no known
\* category after strip and title, comes back as Car with the period picked
\* from Car's list.
C13_KnownAssetType ==
    RowDone =>
        /\ out.asset_type \in KnownAssetTypes
        /\ (\/ row.asset_type = NoneStr
            \/ Title(Strip(row.asset_type)) \notin KnownAssetTypes)
              => /\ out.asset_type = Car
                 /\ out.installment_period =
                      _pick_installment_period(Car, row.installment_period)

\* the requested period of the processed row parses as a positive integer
RequestedPositive ==
    LET r == _to_int_or_none(row.installment_period)
    IN  r.kind = "int" /\ r.val > 0

\* C14: for a known category and a requested period that parses as a
\* positive integer, the period returned is the requested one when that is
\* in the allowed list, and otherwise the allowed value nearest to it, the
\* smaller one of two equally near; picking again from the returned period
\* returns it unchanged; Car with 50 gives 48 and Car with 42 gives 36.
C14_NearestAllowed ==
    (RowDone /\ out.asset_type \in KnownAssetTypes /\ RequestedPositive) =>
        LET allowed == installment_options(out.asset_type)
            n       == _to_int_or_none(row.installment_period).val
            m       == out.installment_period
        IN  /\ InSeq(n, allowed) => m = n
            /\ ~InSeq(n, allowed) =>
                  /\ InSeq(m, allowed)
                  /\ \A i \in 1..Len(allowed) :
                        /\ Abs(m - n) <= Abs(allowed[i] - n)
                        /\ Abs(m - n) = Abs(allowed[i] - n) => m <= allowed[i]
            /\ _pick_installment_period(out.asset_type, ReqInt(m)) = m
            /\ (out.asset_type = Car /\ n = 50) => m = 48
            /\ (out.asset_type = Car /\ n = 42) => m = 36

\* C14 witness: Car with 42, as far from 36 as from 48, was given 36
C14_Witness ==
    /\ RowDone /\ row.asset_type = <<"c", "a", "r">>
    /\ row.installment_period = ReqInt(42)
    /\ out.asset_type = Car /\ out.installment_period = 36

\* C15: when the requested period is absent, zero, negative or does not
\* parse as an integer, the period returned is the smallest allowed period
\* of the asset category.
C15_SmallestWhenNotPositive ==
    (RowDone /\ ~RequestedPositive) =>
        LET allowed == options_get(out.asset_type, <<36>>)
        IN  /\ InSeq(out.installment_period, allowed)
            /\ \A i \in 1..Len(allowed) : out.installment_period <= allowed[i]

\* C15 witness: House with the request "abc" was given 120
C15_Witness ==
    /\ RowDone /\ row.asset_type = <<" ", "H", "o", "u", "s", "e", " ">>
    /\ row.installment_period = ReqStr(<<"a", "b", "c">>)
    /\ out.installment_period = 120

\* the allowed periods of the returned asset type that are longer than the
\* returned period
LongerPeriods ==
    IF out.asset_type \in KnownAssetTypes
    THEN LET allowed == installment_options(out.asset_type)
         IN  {allowed[i] : i \in 1..Len(allowed)} \cap {m \in 1..400 : m > out.installment_period}
    ELSE {}

\* C16: a Review result lists, in this order, the down payment suggestion,
\* the pay-off-some-loans suggestion iff existing_loans > 0, the
\* reduce-expenses suggestion iff expenses > 0.5 * income, and the
\* suggestion to extend to the smallest allowed period longer than the
\* returned one iff there is such a period.
C16_ReviewSuggestionList ==
    (RowDone /\ out.decision = "Review") =>
        out.suggestions =
            <<Suggest("Consider increasing your down payment to reduce the monthly installment.", 0)>>
            \o (IF row.existing_loans[1] > 0
                THEN <<Suggest("Pay off some existing loans to lower your total obligations.", 0)>>
                ELSE <<>>)
            \o (IF 2 * row.expenses[1] > row.income[1]
                THEN <<Suggest("Try to reduce your monthly expenses.", 0)>>
                ELSE <<>>)
            \o (IF LongerPeriods # {}
                THEN <<Suggest("Consider extending the installment period to {} months.",
                               CHOOSE m \in LongerPeriods : \A k \in LongerPeriods : m <= k)>>
                ELSE <<>>)

\* C16 witness: a Review result with all four suggestions, where a period
\* longer than the one offered is allowed too
C16_Witness ==
    /\ RowDone /\ out.decision = "Review"
    /\ Len(out.suggestions) = 4
    /\ Cardinality(LongerPeriods) > 1

\* C17: a Rejected result lists, in this order, the pay-off-loans suggestion
\* iff existing_loans > 0, the increase-income suggestion iff
\* income < (existing_loans + monthly_installment) / 0.58, the down payment
\* suggestion, and the suggestion to extend to the longest allowed period
\* iff that period is longer than the returned one.
C17_RejectedSuggestionList ==
    (RowDone /\ out.decision = "Rejected") =>
        out.suggestions =
            (IF row.existing_loans[1] > 0
             THEN <<Suggest("Pay off existing loans to reduce your DSR.", 0)>>
             ELSE <<>>)
            \o (IF RLt(RMul(<<29, 50>>, row.income),
                       RAdd(row.existing_loans, out.monthly_installment))
                THEN <<Suggest("Increase your net monthly income.", 0)>>
                ELSE <<>>)
            \o <<Suggest("Increase your down payment to reduce the financed amount.", 0)>>
            \o (IF LongerPeriods # {}
                THEN <<Suggest("Consider extending the installment period to {} months.",
                               CHOOSE m \in LongerPeriods : \A k \in LongerPeriods : m >= k)>>
                ELSE <<>>)

\* C17 witness: a Rejected result with all four suggestions
C17_Witness ==
    /\ RowDone /\ out.decision = "Rejected"
    /\ Len(out.suggestions) = 4
    /\ Cardinality(LongerPeriods) > 1

----------------------------------------------------------------------------
(* app/main.py and app/models.py: one row of the customers table.          *)
(* The timestamps created_at and ml_updated_at are left out.               *)

NULL    == "NULL"   \* a NULL text column, Python None
NullNum == <<>>     \* a NULL numeric column, Python None

\* truthiness of a str-or-None value
StrTruthy(v) == v # NULL /\ v # ""

\* a or b
PyOr(a, b) == IF StrTruthy(a) THEN a ELSE b

\* mutant: the review ceiling taken as exclusive
_policy_decision_from_dsr_ExclusiveReview(dsr) ==
    IF ~RLt(dsr, ReviewMax) THEN "Rejected"
    ELSE IF RLe(dsr, AcceptMax) THEN "Accepted"
    ELSE "Review"

_policy_decision_from_dsr(dsr) ==
    IF RLt(ReviewMax, dsr) THEN "Rejected"
    ELSE IF RLe(dsr, AcceptMax) THEN "Accepted"
    ELSE "Review"

\* c.dsr or 0.0
DsrOrZero(c) == IF c.dsr = NullNum \/ c.dsr = Num(0) THEN Num(0) ELSE c.dsr

\* mutant: the policy decision placed ahead of the manual decision
ApplicationsDisplay_PolicyFirst(c) ==
    PyOr(_policy_decision_from_dsr(float(DsrOrZero(c))),
         PyOr(c.manual_decision, PyOr(c.ml_final_decision, c.decision)))

\* final_display of customer_applications, main.py lines 240-241
ApplicationsDisplay(c) ==
    LET policy_final == _policy_decision_from_dsr(float(DsrOrZero(c)))
    IN  PyOr(c.manual_decision, PyOr(policy_final, PyOr(c.ml_final_decision, c.decision)))

\* final_display of customer_detail, main.py lines 659-660
DetailDisplay(c) ==
    LET policy_final == _policy_decision_from_dsr(float(DsrOrZero(c)))
    IN  PyOr(c.manual_decision, PyOr(policy_final, PyOr(c.ml_final_decision, c.decision)))

\* the decision filter of customer_applications, main.py lines 222-227
DecisionFilter(c, decision) ==
    \/ ~StrTruthy(decision)
    \/ c.manual_decision = decision
    \/ (c.manual_decision = NULL /\ c.ml_final_decision = decision)
    \/ (c.manual_decision = NULL /\ c.ml_final_decision = NULL /\ c.decision = decision)

\* models.Customer(**processed): the columns process_customer_row does not
\* give stay NULL
NewCustomer(processed) ==
    [customer_id         |-> processed.customer_id,
     income              |-> processed.income,
     expenses            |-> processed.expenses,
     existing_loans      |-> processed.existing_loans,
     asset_type          |-> processed.asset_type,
     asset_value         |-> processed.asset_value,
     down_payment        |-> processed.down_payment,
     installment_period  |-> processed.installment_period,
     monthly_installment |-> processed.monthly_installment,
     total_cost          |-> processed.total_cost,
     dsr                 |-> processed.dsr,
     decision            |-> processed.decision,
     explanation         |-> processed.explanation,
     suggestions         |-> processed.suggestions,
     ml_p_accept         |-> NullNum,
     ml_label            |-> NULL,
     ml_confidence       |-> NullNum,
     ml_confidence_band  |-> NULL,
     ml_final_decision   |-> NULL,
     manual_decision     |-> NULL,
     manual_note         |-> NULL]

\* for key, value in processed.items(): setattr(db_customer, key, value)
SetProcessed(c, processed) ==
    [c EXCEPT !.customer_id         = processed.customer_id,
              !.income              = processed.income,
              !.expenses            = processed.expenses,
              !.existing_loans      = processed.existing_loans,
              !.asset_type          = processed.asset_type,
              !.asset_value         = processed.asset_value,
              !.down_payment        = processed.down_payment,
              !.installment_period  = processed.installment_period,
              !.monthly_installment = processed.monthly_installment,
              !.total_cost          = processed.total_cost,
              !.dsr                 = processed.dsr,
              !.decision            = processed.decision,
              !.explanation         = processed.explanation,
              !.suggestions         = processed.suggestions]

_db_customer_to_payload(c) ==
    [customer_id        |-> c.customer_id,
     income             |-> float(c.income),
     expenses           |-> float(c.expenses),
     existing_loans     |-> float(c.existing_loans),
     asset_type         |-> c.asset_type,
     asset_value        |-> float(c.asset_value),
     down_payment       |-> float(c.down_payment),
     installment_period |-> ReqInt(IF c.installment_period = 0 THEN 36
                                   ELSE c.installment_period)]

HighConfidence   == <<70, 100>>
MediumConfidence == <<40, 100>>

_band_from_confidence(conf) ==
    IF RLe(HighConfidence, conf) THEN "High"
    ELSE IF RLe(MediumConfidence, conf) THEN "Medium"
    ELSE "Low"

\* one result of _score_h2o_vectorized for the scorer's p_accept, lines 632-634
ScoreResult(p_accept) ==
    LET other      == RSub(Num(1), p_accept)
        confidence == IF RLt(p_accept, other) THEN other ELSE p_accept
    IN  [p_accept        |-> p_accept,
         label           |-> IF RLe(<<1, 2>>, p_accept) THEN "Accepted" ELSE "Rejected",
         confidence      |-> confidence,
         confidence_band |-> _band_from_confidence(confidence)]

\* mutant: a scoring that also resets the manual decision
SetScore_ClearsManual(c, p, processed) ==
    LET dsr == IF c.dsr # NullNum THEN float(c.dsr) ELSE float(processed.dsr)
    IN  [c EXCEPT !.ml_p_accept        = p.p_accept,
                  !.ml_label           = p.label,
                  !.ml_confidence      = p.confidence,
                  !.ml_confidence_band = p.confidence_band,
                  !.ml_final_decision  = _policy_decision_from_dsr(dsr),
                  !.manual_decision    = NULL,
                  !.manual_note        = NULL]

\* the loop body of score_batch, main.py lines 705-712
SetScore(c, p, processed) ==
    LET dsr == IF c.dsr # NullNum THEN float(c.dsr) ELSE float(processed.dsr)
    IN  [c EXCEPT !.ml_p_accept        = p.p_accept,
                  !.ml_label           = p.label,
                  !.ml_confidence      = p.confidence,
                  !.ml_confidence_band = p.confidence_band,
                  !.ml_final_decision  = _policy_decision_from_dsr(dsr)]

\* the loop body of import_csv's scoring step, main.py lines 750-756
SetScoreImport(c, p) ==
    [c EXCEPT !.ml_p_accept        = p.p_accept,
              !.ml_label           = p.label,
              !.ml_confidence      = p.confidence,
              !.ml_confidence_band = p.confidence_band,
              !.ml_final_decision  = _policy_decision_from_dsr(float(DsrOrZero(c)))]

ManualDecisions == {"Accepted", "Review", "Rejected"}

\* body.note or None
NoteOrNone(note) == IF note = "" \/ note = NULL THEN NULL ELSE note

\* set_manual_decision's two assignments, main.py lines 683-684
SetManual(c, decision, note) ==
    [c EXCEPT !.manual_decision = decision, !.manual_note = NoteOrNone(note)]

\* the scorer's answers the model draws from
PAccept == {<<1, 4>>, <<3, 5>>}

----------------------------------------------------------------------------
(* SpecDisplay: a table of one row, in any state the columns of            *)
(* models.Customer admit (dsr, decision, ml_final_decision and             *)
(* manual_decision are nullable), under the handlers that read and write   *)
(* it.  shown is what the last request displayed; a write displays nothing.*)

Example1 ==
    [customer_id |-> "C1", income |-> Num(5000), expenses |-> Num(1000),
     existing_loans |-> Num(0), asset_type |-> <<"c", "a", "r">>,
     asset_value |-> Num(50000), down_payment |-> Num(10000),
     installment_period |-> ReqInt(60)]

Example2 == [Example1 EXCEPT !.existing_loans = Num(2000)]

Example3 ==
    [Example1 EXCEPT !.income = Num(2000), !.existing_loans = Num(500),
                     !.down_payment = Num(18000)]

DisplayPayloads == {Example1, Example2, Example3}

DisplayDsrs ==
    {NullNum, Num(0), <<1, 5>>, <<9, 20>>, <<1, 2>>, <<3, 5>>, <<13, 20>>, Num(1)}

StoredDecisions == {NULL} \cup ManualDecisions

InitDisplay ==
    /\ \E d \in DisplayDsrs, rd \in StoredDecisions, ml \in StoredDecisions,
          m \in StoredDecisions \cup {""} :
          rec = [NewCustomer(process_customer_row(Example1))
                   EXCEPT !.dsr = d, !.decision = rd,
                          !.ml_final_decision = ml, !.manual_decision = m]
    /\ shown = NoShown
    /\ db = <<>> /\ pending = {} /\ resp = NoResp
    /\ row = NoRow /\ out = NoOut /\ clients = NoClients
    /\ scorer = NoScorer /\ threads = NoThreads

\* GET /customer-applications?decision=D over the one row
RowApplications ==
    /\ \E D \in StoredDecisions :
          shown' = [view     |-> "applications",
                    listed   |-> DecisionFilter(rec, D),
                    decision |-> IF DecisionFilter(rec, D)
                                 THEN ApplicationsDisplay(rec) ELSE NULL]
    /\ UNCHANGED <<rec, db, pending, resp, row, out, clients, scorer, threads>>

\* GET /customers/{id}/detail
RowDetail ==
    /\ shown' = [view |-> "detail", listed |-> TRUE, decision |-> DetailDisplay(rec)]
    /\ UNCHANGED <<rec, db, pending, resp, row, out, clients, scorer, threads>>

\* PUT /customers/{id}
RowUpdate ==
    /\ \E p \in DisplayPayloads : rec' = SetProcessed(rec, process_customer_row(p))
    /\ shown' = NoShown
    /\ UNCHANGED <<db, pending, resp, row, out, clients, scorer, threads>>

\* PATCH /customers/{id}/decision
RowSetManual ==
    /\ \E d \in ManualDecisions \cup {"Maybe"}, note \in {"", "checked"} :
          rec' = IF d \in ManualDecisions THEN SetManual(rec, d, note) ELSE rec
    /\ shown' = NoShown
    /\ UNCHANGED <<db, pending, resp, row, out, clients, scorer, threads>>

\* POST /predict-h2o/score-batch
RowScore ==
    /\ \E p \in PAccept :
          rec' = SetScore(rec, ScoreResult(p),
                          process_customer_row(_db_customer_to_payload(rec)))
    /\ shown' = NoShown
    /\ UNCHANGED <<db, pending, resp, row, out, clients, scorer, threads>>

NextDisplay ==
    \/ RowApplications
    \/ RowDetail
    \/ RowUpdate
    \/ RowSetManual
    \/ RowScore

SpecDisplay == InitDisplay /\ [][NextDisplay]_vars

Displayed == shown.view # "none" /\ shown.listed

\* C1: for every persisted record whose manual_decision is non-empty, the
\* decision displayed at read time (customer_applications, customer_detail)
\* equals manual_decision, whatever dsr, ml_final_decision and the stored
\* rule decision are.
C1_ManualOverrides ==
    (Displayed /\ rec.manual_decision \notin {NULL, ""}) =>
        shown.decision = rec.manual_decision

\* C1 witness: a row whose dsr, ML and rule decision all say Accepted is
\* listed as Rejected, its manual decision
C1_Witness ==
    /\ shown.view = "applications" /\ shown.listed
    /\ rec.manual_decision = "Rejected" /\ rec.dsr = <<1, 5>>
    /\ rec.ml_final_decision = "Accepted" /\ rec.decision = "Accepted"
    /\ shown.decision = "Rejected"

C3_FallbackWhenDsrAbsent ==
    (Displayed /\ rec.manual_decision \in {NULL, ""} /\ rec.dsr = NullNum) =>
        shown.decision =
            (IF rec.ml_final_decision # NULL THEN rec.ml_final_decision ELSE rec.decision)

----------------------------------------------------------------------------
(* Spec: the customers table under concurrent write requests.  A handler   *)
(* that checks customer_id and then commits takes two steps, its reads and *)
(* its commit, and other requests may run in between; every other handler  *)
(* is one step.  resp is the response of the request that ended last: the  *)
(* handler, the status code and the line of main.py that produced it.  The *)
(* two update routes run the same statements and answer as "update", the   *)
(* two delete routes as "delete".  What the read routes display is in      *)
(* SpecDisplay; here they answer and write nothing.                        *)
(* A two-step handler may also run uninterrupted, reads and commit in one  *)
(* step, whatever the number of requests waiting to commit.  The commit of *)
(* an update writes the columns whose attribute differs from the value the *)
(* request's session loaded, as the ORM's flush does.                      *)

MaxId      == 2    \* ids the table hands out
MaxPending == 1    \* requests waiting between their reads and their commit

CustomerIds == {"C1", "C2"}

\* requested period 50 snaps to 48
Example4 == [Example1 EXCEPT !.installment_period = ReqInt(50)]

Example5 ==
    [Example1 EXCEPT !.asset_type = <<" ", "H", "o", "u", "s", "e", " ">>,
                     !.installment_period = ReqInt(120)]

\* the clients of one run: payloads and files that differ in customer_id,
\* or payloads and a file for one customer_id that differ in existing_loans
\* and installment_period, or payloads for one customer_id that differ in
\* asset_type and installment_period
Clients ==
    { [payloads |-> {[Example1 EXCEPT !.customer_id = c] : c \in CustomerIds},
       files    |-> { <<Example1, [Example1 EXCEPT !.customer_id = "C2"]>>,
                      <<[Example1 EXCEPT !.customer_id = "C2"],
                        [Example1 EXCEPT !.customer_id = "C2"]>> }],
      [payloads |-> {Example1, Example2, Example4},
       files    |-> { <<Example2, Example4>> }],
      [payloads |-> {Example1, Example4, Example5},
       files    |-> { <<Example5>> }] }

ManualInputs == {<<"Rejected", "checked">>, <<"Maybe", "">>}

\* process_customer_row of every payload the clients c send
Processed(c) ==
    [p \in c.payloads \cup UNION {{f[k] : k \in 1..Len(f)} : f \in c.files}
        |-> process_customer_row(p)]

\* the scorer's answer in Spec
BatchPAccept == {<<3, 5>>}

Response(op, code, line) == [op |-> op, code |-> code, line |-> line]

Init ==
    /\ db = <<>>
    /\ pending = {}
    /\ resp = NoResp
    /\ \E c \in Clients :
          clients = [payloads |-> c.payloads, files |-> c.files, processed |-> Processed(c)]
    /\ row = NoRow /\ out = NoOut /\ rec = NoRec /\ shown = NoShown
    /\ scorer = NoScorer /\ threads = NoThreads

\* db.query(Customer).filter(Customer.customer_id == cid).first() is not None
Exists(table, cid) == \E j \in DOMAIN table : table[j].customer_id = cid

\* the row that query returns
FirstByCustomerId(table, cid) ==
    CHOOSE j \in DOMAIN table :
        /\ table[j].customer_id = cid
        /\ \A k \in DOMAIN table : table[k].customer_id = cid => j <= k

\* mutant: the column declared without unique=True
UniqueViolation_NoConstraint(table, cid, self) == FALSE

\* customer_id = Column(String, unique=True): another row holds cid
UniqueViolation(table, cid, self) ==
    \E j \in DOMAIN table : j # self /\ table[j].customer_id = cid

\* the id the table gives a new row
NextId(table) ==
    IF DOMAIN table = {} THEN 1
    ELSE (CHOOSE m \in DOMAIN table : \A k \in DOMAIN table : k <= m) + 1

Insert(table, c) == table @@ (NextId(table) :> c)

Delete(table, id) == [j \in DOMAIN table \ {id} |-> table[j]]

\* a request between its reads and its commit; loaded is the row an update
\* read into its session
Request(op, id, loaded, rows, skipped, score_after, ids) ==
    [op |-> op, id |-> id, loaded |-> loaded, rows |-> rows, skipped |-> skipped,
     score_after |-> score_after, ids |-> ids]

Room == Cardinality(pending) < MaxPending

Frame == UNCHANGED <<row, out, rec, shown, clients, scorer, threads>>

\* mutant: IntegrityError not caught at the commit of create_customer
CreateCommit_Uncaught(r) ==
    IF UniqueViolation(db, r.rows[1].customer_id, 0)
    THEN /\ resp' = Response("create", 500, 333)
         /\ UNCHANGED db
    ELSE /\ NextId(db) <= MaxId
         /\ db' = Insert(db, NewCustomer(r.rows[1]))
         /\ resp' = Response("create", 201, 335)

\* create_customer: db.add(c), db.commit() and what follows
CreateCommit(r) ==
    IF UniqueViolation(db, r.rows[1].customer_id, 0)
    THEN /\ resp' = Response("create", 409, 333)
         /\ UNCHANGED db
    ELSE /\ NextId(db) <= MaxId
         /\ db' = Insert(db, NewCustomer(r.rows[1]))
         /\ resp' = Response("create", 201, 335)

\* the columns process_customer_row gives
ProcessedColumns ==
    {"customer_id", "income", "expenses", "existing_loans", "asset_type", "asset_value",
     "down_payment", "installment_period", "monthly_installment", "total_cost", "dsr",
     "decision", "explanation", "suggestions"}

\* the attributes of the row an update read that its setattr loop assigns
Loaded(c) == [f \in ProcessedColumns |-> c[f]]

\* the columns the flush of an update writes: those whose attribute no
\* longer equals the value the session loaded
Changed(loaded, target) == {f \in DOMAIN loaded : target[f] # loaded[f]}

\* UPDATE customers SET <changed columns> WHERE id = ...
WriteChanged(c, target, changed) ==
    [f \in DOMAIN c |-> IF f \in changed THEN target[f] ELSE c[f]]

\* either update: the setattr loop, db.commit() and db.refresh()
UpdateCommit(r) ==
    LET target  == SetProcessed(r.loaded, r.rows[1])
        changed == Changed(r.loaded, target)
    IN  IF r.id \notin DOMAIN db
        THEN \* the UPDATE matches no row, or the refresh finds none: an
             \* error no handler catches
             /\ resp' = Response("update", 500, 358)
             /\ UNCHANGED db
        ELSE IF "customer_id" \in changed /\ UniqueViolation(db, target.customer_id, r.id)
        THEN /\ resp' = Response("update", 409, 361)
             /\ UNCHANGED db
        ELSE /\ db' = [db EXCEPT ![r.id] = WriteChanged(@, target, changed)]
             /\ resp' = Response("update", 200, 364)

RECURSIVE InsertAll(_, _)
InsertAll(table, rows) ==
    IF rows = <<>> THEN table
    ELSE InsertAll(Insert(table, NewCustomer(Head(rows))), Tail(rows))

\* the loop of import_csv, main.py lines 734-742: the session does not
\* autoflush, so each query sees the table and not the rows added before it
ImportLoop(table, file) ==
    SelectSeq([k \in 1..Len(file) |-> clients.processed[file[k]]],
              LAMBDA processed : ~Exists(table, processed.customer_id))

\* the INSERTs of one flush break the unique constraint
ImportViolation(table, rows) ==
    \/ \E k \in 1..Len(rows) : UniqueViolation(table, rows[k].customer_id, 0)
    \/ \E k, l \in 1..Len(rows) : k # l /\ rows[k].customer_id = rows[l].customer_id

\* the answer of import_csv: the counts of line 759, 0 with an error; total
\* is the number of rows of the file
ImportResponse(code, line, inserted, skipped, total) ==
    [op |-> "import_csv", code |-> code, line |-> line,
     inserted |-> inserted, skipped |-> skipped, total |-> total]

\* import_csv: the first db.commit() and the scoring step after it
ImportCommit(r) ==
    \E available \in BOOLEAN, p \in BatchPAccept :
        IF ImportViolation(db, r.rows)
        THEN \* IntegrityError, which import_csv does not catch
             /\ resp' = ImportResponse(500, 743, 0, 0, Len(r.rows) + r.skipped)
             /\ UNCHANGED db
        ELSE LET inserted == InsertAll(db, r.rows)
             IN  /\ NextId(db) + Len(r.rows) - 1 <= MaxId
                 /\ IF ~r.score_after
                    THEN /\ db' = inserted
                         /\ resp' = ImportResponse(200, 759, Len(r.rows), r.skipped,
                                                   Len(r.rows) + r.skipped)
                    ELSE IF ~available
                    THEN /\ db' = inserted
                         /\ resp' = ImportResponse(503, 415, 0, 0, Len(r.rows) + r.skipped)
                    ELSE /\ db' = [j \in DOMAIN inserted |->
                                     IF inserted[j].customer_id \in r.ids
                                     THEN SetScoreImport(inserted[j], ScoreResult(p))
                                     ELSE inserted[j]]
                         /\ resp' = ImportResponse(200, 759, Len(r.rows), r.skipped,
                                                   Len(r.rows) + r.skipped)

\* the commit of the request r, by its handler
Commit(r) ==
    IF r.op = "create" THEN CreateCommit(r)
    ELSE IF r.op = "update" THEN UpdateCommit(r)
    ELSE ImportCommit(r)

\* the handler reaches its commit: other requests run first, or none does
Proceed(r) ==
    \/ /\ Room
       /\ pending' = pending \cup {r}
       /\ UNCHANGED <<db, resp>>
    \/ /\ UNCHANGED pending
       /\ Commit(r)

\* the commit of the request r that waited
CommitStep(r) ==
    /\ r \in pending
    /\ pending' = pending \ {r}
    /\ Commit(r)
    /\ Frame

\* create_customer with the body p, to the commit
PostCustomer(p) ==
    LET processed == clients.processed[p]
    IN  /\ IF Exists(db, processed.customer_id)
           THEN /\ resp' = Response("create", 409, 325)
                /\ UNCHANGED <<db, pending>>
           ELSE Proceed(Request("create", 0, NoRec, <<processed>>, 0, FALSE, {}))
        /\ Frame

\* POST /customers, to the commit
create_customer == \E p \in clients.payloads : PostCustomer(p)

\* POST /customers: the commit of a request that waited
create_customer_commit ==
    \E r \in pending : r.op = "create" /\ CommitStep(r)

\* the pre-check that update_customer and update_customer_by_customer_id
\* share, main.py lines 286-291 and 344-352
UpdateReads(id, p) ==
    LET processed == clients.processed[p]
    IN  /\ IF /\ processed.customer_id # db[id].customer_id
              /\ Exists(db, processed.customer_id)
           THEN /\ resp' = Response("update", 409, 352)
                /\ UNCHANGED <<db, pending>>
           ELSE Proceed(Request("update", id, Loaded(db[id]), <<processed>>, 0, FALSE, {}))
        /\ Frame

\* update_customer of the row id with the body p, to the commit
PutCustomer(id, p) ==
    IF id \notin DOMAIN db
    THEN /\ resp' = Response("update", 404, 342)
         /\ UNCHANGED <<db, pending>>
         /\ Frame
    ELSE UpdateReads(id, p)

\* PUT /customers/{customer_id}, to the commit
update_customer == \E id \in 1..MaxId, p \in clients.payloads : PutCustomer(id, p)

\* update_customer_by_customer_id of cid with the body p, to the commit
PutCustomerByCustomerId(cid, p) ==
    IF ~Exists(db, cid)
    THEN /\ resp' = Response("update", 404, 342)
         /\ UNCHANGED <<db, pending>>
         /\ Frame
    ELSE UpdateReads(FirstByCustomerId(db, cid), p)

\* PUT /customers/by-customer-id/{customer_id}, to the commit
update_customer_by_customer_id ==
    \E cid \in CustomerIds, p \in clients.payloads : PutCustomerByCustomerId(cid, p)

\* either update: the commit of a request that waited
update_commit ==
    \E r \in pending : r.op = "update" /\ CommitStep(r)

\* DELETE /customers/{customer_id}
delete_customer ==
    \E id \in 1..MaxId :
        /\ IF id \notin DOMAIN db
           THEN /\ resp' = Response("delete", 404, 371)
                /\ UNCHANGED db
           ELSE /\ db' = Delete(db, id)
                /\ resp' = Response("delete", 200, 374)
        /\ UNCHANGED pending
        /\ Frame

\* DELETE /customers/by-customer-id/{customer_id}
delete_customer_by_customer_id ==
    \E cid \in CustomerIds :
        /\ IF ~Exists(db, cid)
           THEN /\ resp' = Response("delete", 404, 371)
                /\ UNCHANGED db
           ELSE /\ db' = Delete(db, FirstByCustomerId(db, cid))
                /\ resp' = Response("delete", 200, 374)
        /\ UNCHANGED pending
        /\ Frame

\* PATCH /customers/{id}/decision
set_manual_decision ==
    \E id \in 1..MaxId, body \in ManualInputs :
        /\ IF id \notin DOMAIN db
           THEN /\ resp' = Response("set_manual_decision", 404, 680)
                /\ UNCHANGED db
           ELSE IF body[1] \notin ManualDecisions
           THEN /\ resp' = Response("set_manual_decision", 400, 682)
                /\ UNCHANGED db
           ELSE /\ db' = [db EXCEPT ![id] = SetManual(@, body[1], body[2])]
                /\ resp' = Response("set_manual_decision", 200, 686)
        /\ UNCHANGED pending
        /\ Frame

\* the rows a score request selects: all, or those whose customer_id is listed
Selected(table, sel) ==
    {j \in DOMAIN table : sel = {"all"} \/ table[j].customer_id \in sel}

\* POST /predict-h2o/score-batch; available: the scorer's artifacts load
score_batch ==
    \E sel \in {{"all"}, {"C1"}, {}}, available \in BOOLEAN, p \in BatchPAccept :
        /\ IF sel = {}
           THEN /\ resp' = Response("score_batch", 400, 696)
                /\ UNCHANGED db
           ELSE IF Selected(db, sel) = {}
           THEN /\ resp' = Response("score_batch", 200, 699)
                /\ UNCHANGED db
           ELSE IF ~available
           THEN /\ resp' = Response("score_batch", 503, 415)
                /\ UNCHANGED db
           ELSE /\ db' = [j \in DOMAIN db |->
                            IF j \in Selected(db, sel)
                            THEN SetScore(db[j], ScoreResult(p),
                                          process_customer_row(_db_customer_to_payload(db[j])))
                            ELSE db[j]]
                /\ resp' = Response("score_batch", 200, 715)
        /\ UNCHANGED pending
        /\ Frame

\* POST /import-csv, to the first commit
import_csv ==
    \E file \in clients.files, score_after \in BOOLEAN, well_formed \in BOOLEAN :
        LET rows == ImportLoop(db, file)
        IN  /\ IF ~well_formed
               THEN /\ resp' = ImportResponse(400, 722, 0, 0, 0)
                    /\ UNCHANGED <<db, pending>>
               ELSE IF rows = <<>>
               THEN /\ resp' = ImportResponse(200, 759, 0, Len(file), Len(file))
                    /\ UNCHANGED <<db, pending>>
               ELSE Proceed(Request("import_csv", 0, NoRec, rows, Len(file) - Len(rows), score_after,
                                    {file[k].customer_id : k \in 1..Len(file)}))
            /\ Frame

\* POST /import-csv: the commit of a request that waited
import_csv_commit ==
    \E r \in pending : r.op = "import_csv" /\ CommitStep(r)

\* the rows of customer_applications for the filter value decision, each as
\* <<id, ai_decision>>, main.py lines 221-263; a page holds every row
ApplicationRows(table, decision) ==
    {<<j, ApplicationsDisplay(table[j])>> :
        j \in {k \in DOMAIN table : DecisionFilter(table[k], decision)}}

\* GET /customer-applications?decision=D; the response keeps the filter
\* value, the rows returned, and the rows the unfiltered request returns
customer_applications ==
    \E D \in {""} \cup ManualDecisions :
        /\ resp' = [op |-> "customer_applications", code |-> 200, line |-> 276,
                    decision |-> D,
                    rows |-> ApplicationRows(db, D),
                    all  |-> ApplicationRows(db, "")]
        /\ UNCHANGED <<db, pending>>
        /\ Frame

\* GET /customers/{id}/detail
customer_detail ==
    \E id \in 1..MaxId :
        /\ resp' = IF id \in DOMAIN db THEN Response("customer_detail", 200, 661)
                   ELSE Response("customer_detail", 404, 655)
        /\ UNCHANGED <<db, pending>>
        /\ Frame

\* POST /predict
predict ==
    /\ resp' = Response("predict", 200, 390)
    /\ UNCHANGED <<db, pending>>
    /\ Frame

Next ==
    \/ create_customer
    \/ create_customer_commit
    \/ update_customer
    \/ update_customer_by_customer_id
    \/ update_commit
    \/ delete_customer
    \/ delete_customer_by_customer_id
    \/ set_manual_decision
    \/ score_batch
    \/ import_csv
    \/ import_csv_commit
    \/ customer_applications
    \/ customer_detail
    \/ predict

Spec == Init /\ [][Next]_vars

----------------------------------------------------------------------------
(* Claims on Spec.                                                         *)

\* C6: after any sequence and any interleaving of create, update, import
\* and delete requests, two concurrent creates or a create concurrent with
\* an update for one customer_id included, no two persisted records have
\* the same customer_id.
C6_UniqueCustomerId ==
    \A j, k \in DOMAIN db : j # k => db[j].customer_id # db[k].customer_id

\* C6 witness: a create passed its pre-check, another request persisted its
\* customer_id first, and its commit was refused
C6_Witness ==
    /\ resp = Response("create", 409, 333)
    /\ \E j \in DOMAIN db : db[j].customer_id = "C2"

\* the request ends with the conflict error and no row changed
Conflict(op) == resp'.op = op /\ resp'.code = 409 /\ db' = db

\* C7: a create whose customer_id a persisted record holds, and an update
\* that would change a record's customer_id to one another record holds, end
\* with the 409 conflict error and leave every record as it was, whether the
\* duplicate is found by the pre-check or only at the commit.
C7_ConflictLeavesRecords ==
    [][ /\ \A p \in clients.payloads :
              (Exists(db, p.customer_id) /\ PostCustomer(p)) => Conflict("create")
        /\ \A r \in pending :
              (/\ r.op = "create"
               /\ Exists(db, r.rows[1].customer_id)
               /\ CommitStep(r)) => Conflict("create")
        /\ \A id \in DOMAIN db, p \in clients.payloads :
              (/\ p.customer_id # db[id].customer_id
               /\ UniqueViolation(db, p.customer_id, id)
               /\ PutCustomer(id, p)) => Conflict("update")
        /\ \A cid \in CustomerIds, p \in clients.payloads :
              (/\ Exists(db, cid)
               /\ p.customer_id # cid
               /\ UniqueViolation(db, p.customer_id, FirstByCustomerId(db, cid))
               /\ PutCustomerByCustomerId(cid, p)) => Conflict("update")
        /\ \A r \in pending :
              (/\ r.op = "update"
               /\ r.id \in DOMAIN db
               /\ r.rows[1].customer_id # r.loaded.customer_id
               /\ UniqueViolation(db, r.rows[1].customer_id, r.id)
               /\ CommitStep(r)) => Conflict("update")
      ]_vars

\* C7 witness: an update to another customer_id passed its pre-check, that
\* customer_id was persisted meanwhile, and the commit answered 409
C7_Witness ==
    /\ resp = Response("update", 409, 361)
    /\ Cardinality(DOMAIN db) = 2

\* C8: manual_decision and manual_note of a record change only through
\* set_manual_decision; updates, scorings, imports, reads and predict leave
\* them as they are, and a manual decision once set is the decision
\* displayed for the record after every later step.
C8_ManualOnlyBySetManual ==
    [][ \A j \in DOMAIN db \cap DOMAIN db' :
          /\ (\/ db'[j].manual_decision # db[j].manual_decision
              \/ db'[j].manual_note # db[j].manual_note)
                => resp' = Response("set_manual_decision", 200, 686)
          /\ (StrTruthy(db[j].manual_decision) /\ resp'.op # "set_manual_decision")
                => /\ ApplicationsDisplay(db'[j]) = db[j].manual_decision
                   /\ DetailDisplay(db'[j]) = db[j].manual_decision
      ]_vars

\* C8 witness: the one record, manually Rejected, was then rescored and
\* still carries the manual decision
C8_Witness ==
    /\ resp = Response("score_batch", 200, 715)
    /\ DOMAIN db = {1}
    /\ db[1].manual_decision = "Rejected" /\ db[1].manual_note = "checked"
    /\ db[1].ml_final_decision = "Accepted"
    /\ DetailDisplay(db[1]) = "Rejected"

\* C9: in every reachable state each record's stored decision is the
\* three-tier decision of its stored dsr, and its stored installment_period,
\* monthly_installment, total_cost, dsr, decision, explanation and
\* suggestions are what process_customer_row computes from its stored input
\* fields.
C9_DerivedTogether ==
    \A j \in DOMAIN db :
        LET c == db[j]
            q == process_customer_row(_db_customer_to_payload(c))
        IN  /\ c.decision = _policy_decision_from_dsr(c.dsr)
            /\ c.installment_period = q.installment_period
            /\ c.monthly_installment = q.monthly_installment
            /\ c.total_cost = q.total_cost
            /\ c.dsr = q.dsr
            /\ c.decision = q.decision
            /\ c.explanation = q.explanation
            /\ c.suggestions = q.suggestions

\* the allowed periods of a returned or stored asset type, logic.py line 27
AllowedFor(asset_type) == options_get(asset_type, <<36>>)

\* C12: the installment_period that process_customer_row returns, and the
\* installment_period of every stored record, is positive and a member of
\* the allowed list of the asset_type returned or stored with it.
C12_PeriodAllowed ==
    /\ \A p \in DOMAIN clients.processed :
          LET q == clients.processed[p]
          IN  /\ q.installment_period > 0
              /\ InSeq(q.installment_period, AllowedFor(q.asset_type))
    /\ \A j \in DOMAIN db :
          /\ db[j].installment_period > 0
          /\ InSeq(db[j].installment_period, AllowedFor(db[j].asset_type))

----------------------------------------------------------------------------
(* SpecLoader: the statistical scorer of app/main.py.  scorer holds the    *)
(* module globals _H2O_BIN, _H2O_BIN_MODEL, _H2O_BIN_META and              *)
(* _H2O_BIN_FEATURES, the artifacts directory as training leaves it, and   *)
(* the number of load_model calls made.  The handlers are synchronous      *)
(* functions that the server runs on worker threads, so a thread can be    *)
(* between any two lines of _load_h2o_bin while another one runs;          *)
(* threads[t] is the request thread t runs and the line it has reached.    *)
(* rec is the one row of the customers table, NoRec when it is empty.      *)

MaxWorkers == 2
Workers    == 1..MaxWorkers

\* the artifacts directory: without its files, with both files complete, or
\* with metadata.json not holding a complete JSON text, as it is while
\* training writes it
ArtifactStates == {"absent", "valid", "bad_json"}

ScoringKinds == {"predict_h2o", "predict_h2o_by_customer_id", "score_batch"}

LoaderPayloads == {Example1, Example3}

LoaderRecords == {NoRec, NewCustomer(process_customer_row(Example3))}

Idle ==
    [kind |-> "none", pc |-> "idle", code |-> 0, line |-> 0,
     arg |-> NoRow, decision |-> NULL]

InitLoader ==
    /\ \E imp \in BOOLEAN, a \in ArtifactStates :
          scorer = [started |-> FALSE, importable |-> imp, artifacts |-> a,
                    trained |-> a # "absent", h2o |-> FALSE, model |-> FALSE,
                    meta |-> "None", features |-> FALSE, loads |-> 0]
    /\ threads = [t \in Workers |-> Idle]
    /\ rec \in LoaderRecords
    /\ shown = NoShown
    /\ db = <<>> /\ pending = {} /\ resp = NoResp
    /\ row = NoRow /\ out = NoOut /\ clients = NoClients

LoaderFrame == UNCHANGED <<db, pending, resp, row, out, shown, clients>>

\* mutant: the exception of the scorer passed on to the client
CaughtByDetail_Reraised(code) == code

\* the except clause of customer_detail, main.py lines 671-672
CaughtByDetail(code) == 200

At(t, pc)   == threads[t].pc = pc
Goto(t, pc) == threads' = [threads EXCEPT ![t].pc = pc]

\* thread t takes up a request and calls _load_h2o_bin
Begin(t, kind, arg, decision) ==
    threads' = [threads EXCEPT ![t] =
                  [kind |-> kind, pc |-> "l402", code |-> 0, line |-> 0,
                   arg |-> arg, decision |-> decision]]

\* thread t answers a request without calling the scorer
Answer(t, kind, code, line, arg, decision) ==
    threads' = [threads EXCEPT ![t] =
                  [kind |-> kind, pc |-> "done", code |-> code, line |-> line,
                   arg |-> arg, decision |-> decision]]

\* an exception raised at line in thread t: the startup hook drops it
\* (main.py lines 587-588), customer_detail catches it, every other handler
\* answers with its status code
Raise(t, code, line) ==
    LET th == threads[t]
    IN  /\ threads' = [threads EXCEPT ![t] =
                         [th EXCEPT !.pc = "done", !.line = line,
                                    !.code = CASE th.kind = "warm"   -> 0
                                               [] th.kind = "detail" -> CaughtByDetail(code)
                                               [] OTHER              -> code]]
        /\ scorer' = IF th.kind = "warm" THEN [scorer EXCEPT !.started = TRUE]
                     ELSE scorer

\* a request may start on a thread that runs none, once startup is over
CanStart(t) == scorer.started /\ threads[t].pc \in {"idle", "done"}

\* the startup hook, main.py lines 583-588, before any request is served
_startup_warm_h2o ==
    /\ ~scorer.started
    /\ At(1, "idle")
    /\ Begin(1, "warm", NoRow, NULL)
    /\ UNCHANGED <<scorer, rec>>
    /\ LoaderFrame

\* POST /predict-h2o, main.py lines 513-515 and 432-440
predict_h2o ==
    \E t \in Workers, p \in LoaderPayloads :
        /\ CanStart(t)
        /\ Begin(t, "predict_h2o", p, NULL)
        /\ UNCHANGED <<scorer, rec>>
        /\ LoaderFrame

\* POST /predict-h2o/by-customer-id, main.py lines 539-545
predict_h2o_by_customer_id ==
    \E t \in Workers, cid \in {"C1", "C9"} :
        /\ CanStart(t)
        /\ IF rec = NoRec \/ rec.customer_id # cid
           THEN Answer(t, "predict_h2o_by_customer_id", 404, 543, NoRow, NULL)
           ELSE Begin(t, "predict_h2o_by_customer_id", _db_customer_to_payload(rec), NULL)
        /\ UNCHANGED <<scorer, rec>>
        /\ LoaderFrame

\* POST /predict-h2o/score-batch to its call of the scorer, main.py
\* lines 690-702
ThreadScoreBatch ==
    \E t \in Workers, sel \in {{"all"}, {"C9"}, {}} :
        /\ CanStart(t)
        /\ IF sel = {}
           THEN Answer(t, "score_batch", 400, 696, NoRow, NULL)
           ELSE IF rec = NoRec \/ (sel # {"all"} /\ rec.customer_id \notin sel)
           THEN Answer(t, "score_batch", 200, 699, NoRow, NULL)
           ELSE Begin(t, "score_batch", NoRow, NULL)
        /\ UNCHANGED <<scorer, rec>>
        /\ LoaderFrame

\* GET /customers/{id}/detail to its call of the scorer, main.py
\* lines 651-664
ThreadCustomerDetail ==
    \E t \in Workers :
        /\ CanStart(t)
        /\ IF rec = NoRec
           THEN Answer(t, "detail", 404, 654, NoRow, NULL)
           ELSE Begin(t, "detail", NoRow, DetailDisplay(rec))
        /\ UNCHANGED <<scorer, rec>>
        /\ LoaderFrame

\* POST /predict, main.py lines 378-390: no use of the scorer
ThreadPredict ==
    \E t \in Workers, p \in LoaderPayloads :
        /\ CanStart(t)
        /\ Answer(t, "predict", 200, 390, p, process_customer_row(p).decision)
        /\ UNCHANGED <<scorer, rec>>
        /\ LoaderFrame

\* _load_h2o_bin, main.py lines 402-403
Load402 ==
    \E t \in Workers :
        /\ At(t, "l402")
        /\ IF scorer.model THEN Goto(t, "use") ELSE Goto(t, "l405")
        /\ UNCHANGED <<scorer, rec>>
        /\ LoaderFrame

\* _load_h2o_bin, main.py lines 404-409
Load405 ==
    \E t \in Workers :
        /\ At(t, "l405")
        /\ IF scorer.importable
           THEN /\ Goto(t, "l414")
                /\ scorer' = [scorer EXCEPT !.h2o = TRUE]
           ELSE Raise(t, 503, 409)
        /\ UNCHANGED rec
        /\ LoaderFrame

\* _load_h2o_bin, main.py lines 411-415
Load414 ==
    \E t \in Workers :
        /\ At(t, "l414")
        /\ IF scorer.artifacts = "absent"
           THEN Raise(t, 503, 415)
           ELSE Goto(t, "l419") /\ UNCHANGED scorer
        /\ UNCHANGED rec
        /\ LoaderFrame

\* _load_h2o_bin, main.py lines 417-419: read the model path, init,
\* load_model; a file removed since line 414 makes read_text raise
Load419 ==
    \E t \in Workers :
        /\ At(t, "l419")
        /\ IF scorer.artifacts = "absent"
           THEN Raise(t, 500, 417)
           ELSE /\ Goto(t, "l420")
                /\ scorer' = [scorer EXCEPT !.model = TRUE, !.loads = @ + 1]
        /\ UNCHANGED rec
        /\ LoaderFrame

\* _load_h2o_bin, main.py line 420
Load420 ==
    \E t \in Workers :
        /\ At(t, "l420")
        /\ IF scorer.artifacts \in {"absent", "bad_json"}
           THEN Raise(t, 500, 420)
           ELSE /\ Goto(t, "l421")
                /\ scorer' = [scorer EXCEPT !.meta = scorer.artifacts]
        /\ UNCHANGED rec
        /\ LoaderFrame

\* _load_h2o_bin, main.py line 421: the metadata training writes has the
\* "features" key
Load421 ==
    \E t \in Workers :
        /\ At(t, "l421")
        /\ Goto(t, "use")
        /\ scorer' = [scorer EXCEPT !.features = TRUE]
        /\ UNCHANGED rec
        /\ LoaderFrame

\* the line that reads _H2O_BIN_FEATURES after _load_h2o_bin returned
FeaturesLine(kind) == IF kind = "score_batch" THEN 602 ELSE 444

\* after _load_h2o_bin returned: the startup hook ends; a request reads
\* _H2O_BIN_FEATURES and _H2O_BIN_META (main.py lines 444-445, 602-603),
\* which raises TypeError on None, scores, and score_batch writes the
\* ML columns (main.py lines 703-715)
Use ==
    \E t \in Workers, scored \in BOOLEAN, p \in BatchPAccept :
        LET th == threads[t]
        IN  /\ At(t, "use")
            /\ IF th.kind = "warm"
               THEN /\ threads' = [threads EXCEPT ![t].pc = "done", ![t].line = 586]
                    /\ scorer' = [scorer EXCEPT !.started = TRUE]
                    /\ UNCHANGED rec
               ELSE IF ~scorer.features
               THEN Raise(t, 500, FeaturesLine(th.kind)) /\ UNCHANGED rec
               ELSE IF ~scored
               THEN Raise(t, 500, IF th.kind = "score_batch" THEN 611 ELSE 453)
                    /\ UNCHANGED rec
               ELSE /\ threads' = [threads EXCEPT ![t].pc = "done", ![t].code = 200,
                                                  ![t].line = IF th.kind = "score_batch" THEN 715
                                                              ELSE IF th.kind = "detail" THEN 665
                                                              ELSE 510]
                    /\ rec' = IF th.kind = "score_batch" /\ rec # NoRec
                              THEN SetScore(rec, ScoreResult(p),
                                            process_customer_row(_db_customer_to_payload(rec)))
                              ELSE rec
                    /\ UNCHANGED scorer
            /\ LoaderFrame

\* python -m app.h2o.train_h2o_mc, or any writer of the artifacts directory
Train ==
    \E a \in ArtifactStates \ {"absent"} :
        /\ a # scorer.artifacts
        /\ scorer' = [scorer EXCEPT !.artifacts = a, !.trained = TRUE]
        /\ UNCHANGED <<threads, rec>>
        /\ LoaderFrame

\* the artifacts directory removed
RemoveArtifacts ==
    /\ scorer.artifacts # "absent"
    /\ scorer' = [scorer EXCEPT !.artifacts = "absent"]
    /\ UNCHANGED <<threads, rec>>
    /\ LoaderFrame

NextLoader ==
    \/ _startup_warm_h2o
    \/ predict_h2o
    \/ predict_h2o_by_customer_id
    \/ ThreadScoreBatch
    \/ ThreadCustomerDetail
    \/ ThreadPredict
    \/ Load402
    \/ Load405
    \/ Load414
    \/ Load419
    \/ Load420
    \/ Load421
    \/ Use
    \/ Train
    \/ RemoveArtifacts

SpecLoader == InitLoader /\ [][NextLoader]_vars

----------------------------------------------------------------------------
(* Claims on SpecLoader                                                    *)

\* thread t ends a request in this step
Ends(t) == threads'[t] # threads[t] /\ threads'[t].pc = "done"

\* what a request that ended owes when the scorer is unavailable: a scoring
\* request the 503 answer and an untouched record, predict the decision of
\* process_customer_row, customer_detail of a stored record its display
\* decision
UnavailableAnswer(t) ==
    LET th == threads'[t]
    IN  /\ th.kind \in ScoringKinds => (th.code = 503 /\ rec' = rec)
        /\ th.kind = "predict" =>
              (th.code = 200 /\ th.decision = process_customer_row(th.arg).decision)
        /\ (th.kind = "detail" /\ rec # NoRec) =>
              (th.code = 200 /\ th.decision = DetailDisplay(rec))

\* C18 as stated: while the artifacts are absent, every scoring request
\* ends with 503 and leaves the record's ML fields as they were, and
\* predict and customer_detail still return the rule/policy decision.
C18_Absent503 ==
    [][\A t \in Workers :
          (Ends(t) /\ scorer.artifacts = "absent") => UnavailableAnswer(t)]_vars

\* C18 amended: the same while the artifacts have been absent since the
\* process started, for the scoring requests that call the scorer
\* (predict_h2o, predict_h2o_by_customer_id of a stored customer,
\* score_batch that selects a record).
C18_NeverTrained503 ==
    [][\A t \in Workers :
          (/\ Ends(t)
           /\ ~scorer.trained
           /\ threads'[t].kind \in ScoringKinds => threads[t].pc \notin {"idle", "done"})
          => UnavailableAnswer(t)]_vars

\* C18 witness: with artifacts never present, a score_batch ended with 503
\* at line 415, a customer_detail ended with the display decision, and
\* the record has no ML fields
C18_Witness ==
    /\ ~scorer.trained /\ scorer.importable
    /\ threads[1].kind = "score_batch" /\ threads[1].pc = "done"
    /\ threads[1].code = 503 /\ threads[1].line = 415
    /\ threads[2].kind = "detail" /\ threads[2].pc = "done"
    /\ threads[2].code = 200 /\ threads[2].decision = "Rejected"
    /\ rec # NoRec /\ rec.ml_final_decision = NULL

\* C19: load_model is called at most once in the life of the process.
C19_LoadedAtMostOnce == scorer.loads <= 1

\* C20: a thread for which _load_h2o_bin has returned finds the model, the
\* metadata and the feature list set.
C20_ReturnedMeansSet ==
    \A t \in Workers :
        At(t, "use") => scorer.model /\ scorer.meta # "None" /\ scorer.features

----------------------------------------------------------------------------
(* Further claims on Spec                                                  *)

\* C21: every row that customer_applications returns for the filter value D
\* has ai_decision = D, and every record displayed with ai_decision = D is
\* among the rows returned for D.
C21_FilterAgreesWithDisplay ==
    (resp.op = "customer_applications" /\ resp.decision # "") =>
        /\ \A r \in resp.rows : r[2] = resp.decision
        /\ \A r \in resp.all : r[2] = resp.decision => r \in resp.rows

\* an import_csv request ends in this step
ImportEnds == resp'.op = "import_csv" /\ <<resp', db'>> # <<resp, db>>

\* C22: an import_csv of a CSV file succeeds with inserted + skipped equal
\* to the number of rows of the file, adds exactly inserted records, and
\* adds none whose customer_id a stored record or an earlier row of the
\* file has.
C22_ImportSkipsTaken ==
    [][(ImportEnds /\ resp'.code # 400) =>
          /\ resp'.code = 200
          /\ resp'.inserted + resp'.skipped = resp'.total
          /\ Cardinality(DOMAIN db') = Cardinality(DOMAIN db) + resp'.inserted
          /\ \A j, k \in DOMAIN db' :
                j # k => db'[j].customer_id # db'[k].customer_id]_vars

\* C23: an import_csv that ends with an error leaves the records as they
\* were; records are added only by a request that reports its counts.
C23_ImportAllOrNothing ==
    [][ImportEnds =>
          /\ resp'.code # 200 => db' = db
          /\ db' # db =>
                /\ resp'.code = 200
                /\ resp'.inserted = Cardinality(DOMAIN db') - Cardinality(DOMAIN db)]_vars

====
